---- MODULE Spec2Model ----
(***************************************************************************)
(* IndianKanoonScraper (py.py): the identifier ledger (processed_ids /     *)
(* failed_ids and their two backing files), the proxy cursor, fetch_case,  *)
(* process_single_case, save_cases, retry_failed_cases and the __main__    *)
(* batch loop, together with the process being killed and started again.   *)
(*                                                                         *)
(* Sleeps and log lines change no state and are left out.  The program     *)
(* reads its ledger files into sets and never reads the corpus, so a file  *)
(* is kept as the number of lines (record blocks) it holds per identifier. *)
(***************************************************************************)
EXTENDS Integers, Sequences, FiniteSets, TLC

\* ------------------------------------------------------------------ bounds
\* Size of the identifier range of an unscripted run (total_cases, scaled).
NumIds == 2
\* batch_size of an unscripted run (scaled).
SmallBatch == 1
\* Largest number of lines of proxies.txt.
MaxProxies == 2
\* How many times the process is killed and started again.
MaxRestarts == 1
\* How many file writes may raise OSError in one run.
MaxWriteFailures == 1

\* ------------------------------------------------------- program constants
\* retry_failed_cases(filename, max_retries = 3)
DefaultMaxRetries == 3
\* response.status_code == 429
RateLimited == 429
\* a successful status
StatusOk == 200
\* a status raise_for_status() rejects, other than 429
StatusError == 500
\* a status outside 2xx that raise_for_status() lets pass
StatusRedirect == 300

\* ------------------------------------------------------------ the transport
\* What one session.get(url, timeout=15, proxies=proxies) can do: raise a
\* requests.RequestException (status 0), or return a response with a status
\* code and a page that has, or has not, a <div class="judgments">.
Timeout == [status |-> 0, judgment |-> FALSE]
PageWithJudgment == [status |-> StatusOk, judgment |-> TRUE]
PageWithoutJudgment == [status |-> StatusOk, judgment |-> FALSE]
TooManyRequests == [status |-> RateLimited, judgment |-> FALSE]
ServerError == [status |-> StatusError, judgment |-> FALSE]
\* A 3xx answer that requests does not follow (no Location header).
Redirection == [status |-> StatusRedirect, judgment |-> FALSE]

\* No get was issued.
NoResponse == [status |-> -1, judgment |-> FALSE]

Responses ==
    {Timeout, PageWithJudgment, PageWithoutJudgment, TooManyRequests,
     ServerError, Redirection}

\* The injected fetches.  "free" answers anything at any time; the others are
\* the scripted fetches of the two end-to-end scenarios:
\*   "range10":  ids 1..10, batches of 5, content for all ids but 5, whose
\*               page has no judgment;
\*   "retry789": ids 1..9, content for 1..6; 7 and 8 fail on their first
\*               fetch and succeed afterwards; 9 always fails.
Fixtures == {"free", "range10", "retry789"}

TotalCases(fx) ==
    CASE fx = "range10" -> 10
      [] fx = "retry789" -> 9
      [] OTHER -> NumIds

BatchSize(fx) ==
    CASE fx = "range10" -> 5
      [] fx = "retry789" -> 5
      [] OTHER -> SmallBatch

\* The responses the injected fetch may give to the (k+1)-th get for doc_id
\* issued by this process.
Allowed(fx, doc_id, k) ==
    CASE fx = "range10" ->
            IF doc_id = 5 THEN {PageWithoutJudgment} ELSE {PageWithJudgment}
      [] fx = "retry789" ->
            IF doc_id \in {7, 8}
            THEN (IF k = 0 THEN {Timeout} ELSE {PageWithJudgment})
            ELSE IF doc_id = 9 THEN {Timeout, ServerError}
            ELSE {PageWithJudgment}
      [] OTHER -> Responses

\* ------------------------------------------------------------------ proxies
\* proxies.txt: one endpoint per line, with a scheme or as a bare host:port.
ProxyLine(i) ==
    [scheme |-> IF i % 2 = 1 THEN "socks5" ELSE "", addr |-> i]

ProxyFiles ==
    {[i \in 1..k |-> ProxyLine(i)] : k \in 0..MaxProxies}

NoProxy == [http |-> <<"", 0>>, https |-> <<"", 0>>]

\* The dict get_next_proxy builds from one line.
ProxyDict(line) ==
    IF line.scheme # ""
    THEN [http |-> <<line.scheme, line.addr>>, https |-> <<line.scheme, line.addr>>]
    ELSE [http |-> <<"http", line.addr>>, https |-> <<"https", line.addr>>]

\* ------------------------------------------------------------------ helpers
None == 0

Range(s) == {s[i] : i \in 1..Len(s)}

Remove(s, x) == SelectSeq(s, LAMBDA y : y # x)

Min(a, b) == IF a <= b THEN a ELSE b

VARIABLES
    fixture,        \* the injected fetch of this run
    driver,         \* "main": __main__; "api": a caller of the public methods
    proxies,        \* self.proxies
    proxy_index,    \* self.proxy_index
    processed_ids,  \* self.processed_ids
    failed_ids,     \* self.failed_ids
    processed_file, \* processed_ids.txt, a line per entry
    failed_file,    \* failed_ids.txt
    corpus,         \* all_cases.txt, the identifier of each record block
    pc,             \* where the single thread of control is
    batch_start,    \* __main__: batch_start
    todo,           \* save_cases: the rest of ids_to_process
    result,         \* the value fetch_case returned (None = 0)
    retry,          \* retry_failed_cases: its locals
    get_calls,      \* session.get calls per identifier since the process started
    proxy_uses,     \* how often each proxy line was handed out since the start
    last,           \* the last fetch_case invocation
    at_start,       \* what the two ledger files held when the process started
    restarts,       \* how often the process was started again
    wfails,         \* how many writes raised
    span,           \* save_cases: its arguments start and end
    seen            \* per identifier, what the fetch that marked it done found

vars ==
    <<fixture, driver, proxies, proxy_index, processed_ids, failed_ids,
      processed_file, failed_file, corpus, pc, batch_start, todo, result,
      retry, get_calls, proxy_uses, last, at_start, restarts, wfails,
      span, seen>>

Ids == 1..TotalCases(fixture)

NoRetry ==
    [failed_ids |-> <<>>, pass |-> 0, iter |-> <<>>, max_retries |-> 0,
     entry_failed |-> {}, entry_done |-> {}, entry_corpus |-> 0]

NoCall ==
    [n |-> 0, doc_id |-> None, gets |-> 0, proxy |-> NoProxy,
     r1 |-> NoResponse, r2 |-> NoResponse,
     outcome |-> "none", by |-> "none", raised |-> FALSE]


\* The orders in which a set can be listed (list(a_set), for x in a_set).
Orders(S) ==
    {s \in [1..Cardinality(S) -> S] : Range(s) = S}

NoGets == [i \in Ids |-> 0]

\* No save_cases call is running; no fetch has found anything yet.
NoSpan == [start |-> 0, end |-> 0]

NothingSeen == [i \in Ids |-> "none"]

\* A file without lines, one more line for doc_id (open(.., "a"), write),
\* the identifiers a file names, a file written anew with one line per member of S (open(.., "w")), and the
\* number of lines of a file.
EmptyFile == [i \in Ids |-> 0]

\* Faulty variant: the line is not written.
AppendNothing(file, doc_id) == file

AppendLine(file, doc_id) == [file EXCEPT ![doc_id] = @ + 1]

\* Faulty variant: the ledger files are not read.
LoadNothing(file) == {}

\* Lines 42-53: set(int(line.strip()) for line in f if line.strip()).
Load(file) == {i \in Ids : file[i] > 0}

\* Faulty variant: the file is opened for writing and nothing is written.
RewrittenNothing(S) == [i \in Ids |-> 0]

Rewritten(S) == [i \in Ids |-> IF i \in S THEN 1 ELSE 0]

RECURSIVE SumUpTo(_, _)
SumUpTo(file, n) == IF n = 0 THEN 0 ELSE file[n] + SumUpTo(file, n - 1)

Lines(file) == SumUpTo(file, TotalCases(fixture))

NoUses == [i \in 1..Len(proxies) |-> 0]

\* __init__: both ledgers are loaded from their files (a missing file is an
\* empty one), the proxy list is loaded and the cursor starts at 0.  The
\* callers of the public methods are run without a proxies.txt.
Init ==
    /\ fixture \in Fixtures
    /\ driver \in (IF fixture = "free" THEN {"main", "api"} ELSE {"main"})
    /\ proxies \in (IF driver = "main" THEN ProxyFiles ELSE {<<>>})
    /\ proxy_index = 0
    /\ processed_file = EmptyFile
    /\ failed_file = EmptyFile
    /\ corpus = EmptyFile
    /\ processed_ids = Load(processed_file)
    /\ failed_ids = Load(failed_file)
    /\ pc = IF driver = "main" THEN "main" ELSE "idle"
    /\ batch_start = 1
    /\ todo = <<>>
    /\ result = None
    /\ retry = NoRetry
    /\ get_calls = NoGets
    /\ proxy_uses = NoUses
    /\ last = NoCall
    /\ at_start = {}
    /\ restarts = 0
    /\ wfails = 0
    /\ span = NoSpan
    /\ seen = NothingSeen

\* ---------------------------------------------------------------- fetch_case
\* Faulty variants of the skip checks: one forgets the failed set, one skips
\* nothing.
SkippedOnlyProcessed(doc_id) ==
    doc_id \in processed_ids

SkippedNever(doc_id) ==
    FALSE

\* Lines 94-101: the two skip checks.
Skipped(doc_id) ==
    doc_id \in processed_ids \/ doc_id \in failed_ids

\* Faulty variant: the cursor steps over an entry.
NextProxyIndexSkipping ==
    (proxy_index + 2) % Len(proxies)

\* Line 72: the cursor after one get_next_proxy.
NextProxyIndex ==
    (proxy_index + 1) % Len(proxies)

\* Lines 66-86: the value get_next_proxy returns.
get_next_proxy ==
    IF Len(proxies) = 0 THEN NoProxy ELSE ProxyDict(proxies[proxy_index + 1])

\* Faulty variant: a 429 is followed by two more gets.
GetsTwiceMore(r1) ==
    IF r1.status = RateLimited THEN 3 ELSE 1

\* Lines 109-116: the second get happens after a 429 and only then.
Gets(r1) ==
    IF r1.status = RateLimited THEN 2 ELSE 1

\* Faulty variant: the response of the second get is not used.
FinalResponseFirst(r1, r2) ==
    r1

\* Lines 112-116: response is the second response after a 429.
FinalResponse(r1, r2) ==
    IF r1.status = RateLimited THEN r2 ELSE r1

\* Lines 108-120: session.get raised, or raise_for_status() rejects the status
\* of the response that is left: 4xx and 5xx, a second 429 included, and no
\* other status.
RequestFailed(r) ==
    r.status = 0 \/ r.status >= 400

\* Faulty variant: a page without a judgment counts as a failure.
ClassifyEmptyAsFailed(r) ==
    IF RequestFailed(r) \/ ~r.judgment THEN "failed" ELSE "record"

\* Lines 118-152: what fetch_case makes of the response that is left.
Classify(r) ==
    IF RequestFailed(r) THEN "failed"
    ELSE IF ~r.judgment THEN "empty"
    ELSE "record"

\* Faulty variants: a page without a judgment is not marked done; it is
\* marked failed as well.
MarksDoneOnlyRecord(outcome) == outcome = "record"

MarksFailedAlsoEmpty(outcome) == outcome \in {"failed", "empty"}

\* Faulty variant: a failed request marks nothing.
MarksFailedNever(outcome) == FALSE

\* Which ledger an outcome is written to (lines 123-125, 135-137, 148-150).
MarksDone(outcome) == outcome \in {"empty", "record"}

MarksFailed(outcome) == outcome = "failed"

\* One fetch_case(doc_id) call, by "crawl", "retry" or "api".  r1 is the
\* response to the first get and r2 what a second get is answered; wok is
\* whether the ledger append succeeds (it raises OSError otherwise, after the
\* set was changed in memory).  The call is recorded in last.
fetch_case(doc_id, r1, r2, wok, by) ==
    IF Skipped(doc_id)
    THEN /\ last' = [n |-> 1 - last.n, doc_id |-> doc_id, gets |-> 0,
                     proxy |-> NoProxy, r1 |-> NoResponse, r2 |-> NoResponse,
                     outcome |-> "skipped", by |-> by, raised |-> FALSE]
         /\ UNCHANGED <<proxy_index, proxy_uses, get_calls, processed_ids,
                        failed_ids, processed_file, failed_file, wfails, seen>>
    ELSE LET outcome == Classify(FinalResponse(r1, r2))
         IN  /\ proxy_index' = IF Len(proxies) = 0 THEN proxy_index
                               ELSE NextProxyIndex
             /\ proxy_uses' = IF Len(proxies) = 0 THEN proxy_uses
                              ELSE [proxy_uses EXCEPT ![proxy_index + 1] = @ + 1]
             /\ get_calls' = [get_calls EXCEPT ![doc_id] = @ + Gets(r1)]
             /\ processed_ids' = IF MarksDone(outcome)
                                 THEN processed_ids \cup {doc_id}
                                 ELSE processed_ids
             /\ failed_ids' = IF MarksFailed(outcome)
                              THEN failed_ids \cup {doc_id}
                              ELSE failed_ids
             /\ processed_file' = IF MarksDone(outcome) /\ wok
                                  THEN AppendLine(processed_file, doc_id)
                                  ELSE processed_file
             /\ failed_file' = IF MarksFailed(outcome) /\ wok
                               THEN AppendLine(failed_file, doc_id)
                               ELSE failed_file
             /\ wfails' = IF wok THEN wfails ELSE wfails + 1
             /\ seen' = IF outcome \in {"empty", "record"} /\ wok
                        THEN [seen EXCEPT ![doc_id] = outcome]
                        ELSE seen
             /\ last' = [n |-> 1 - last.n, doc_id |-> doc_id, gets |-> Gets(r1),
                         proxy |-> get_next_proxy, r1 |-> r1, r2 |-> r2,
                         outcome |-> outcome, by |-> by, raised |-> ~wok]

\* Lines 96, 101, 126, 138, 152: the value the last fetch_case call returned,
\* a record (kept as its identifier) or None.
Returned(call) ==
    IF call.outcome = "record" /\ ~call.raised THEN call.doc_id ELSE None

\* Whether this run is one in which the process may be killed and file writes
\* may be refused: the unscripted runs of __main__ without proxies.
Faulty == fixture = "free" /\ driver = "main" /\ proxies = <<>>

\* The inputs of one fetch_case call: the responses the injected fetch gives
\* and whether the disk takes the write.
Call(doc_id, by) ==
    \E r1 \in Allowed(fixture, doc_id, get_calls[doc_id]) :
      \E r2 \in (IF r1.status = RateLimited
                 THEN Allowed(fixture, doc_id, get_calls[doc_id] + 1)
                 ELSE {r1}) :
        \E wok \in (IF Faulty /\ wfails < MaxWriteFailures /\ ~Skipped(doc_id)
                    THEN BOOLEAN ELSE {TRUE}) :
          fetch_case(doc_id, r1, r2, wok, by)


\* --------------------------------------------------------------- save_cases
\* Lines 179-180: the identifiers of [start, end] that are in neither set.
IdsToProcess(start, end) ==
    SelectSeq([i \in 1..(end - start + 1) |-> start + i - 1],
              LAMBDA doc_id : doc_id \notin processed_ids /\ doc_id \notin failed_ids)

\* Line 256.
BatchEnd ==
    Min(batch_start + BatchSize(fixture) - 1, TotalCases(fixture))

\* Where control goes when a method returns to, or raises into, its caller:
\* __main__ catches what save_cases raises (lines 267-270) and goes on with the
\* next batch; nothing catches what retry_failed_cases raises (line 274).
AfterSaveCases == IF driver = "main" THEN "main" ELSE "idle"

\* Faulty variant: __main__ has no try around save_cases.
AfterSaveCasesUncaught == IF driver = "main" THEN "down" ELSE "idle"

\* Lines 267-270: except Exception, the cooldown, then the next batch.
AfterSaveCasesRaised == IF driver = "main" THEN "main" ELSE "idle"

AfterRetry == IF driver = "main" THEN "exited" ELSE "idle"

AfterRetryRaised == IF driver = "main" THEN "down" ELSE "idle"

NextBatchStart ==
    IF driver = "main" THEN batch_start + BatchSize(fixture) ELSE batch_start

\* Lines 255-260: __main__ starts the next batch.
MainBatch ==
    /\ pc = "main"
    /\ batch_start <= TotalCases(fixture)
    /\ todo' = IdsToProcess(batch_start, BatchEnd)
    /\ span' = [start |-> batch_start, end |-> BatchEnd]
    /\ pc' = "crawl"
    /\ UNCHANGED <<fixture, driver, proxies, seen, proxy_index, processed_ids,
                   failed_ids, processed_file, failed_file, corpus, batch_start,
                   result, retry, get_calls, proxy_uses, last, at_start,
                   restarts, wfails>>

\* A caller of the class calls save_cases(start, end, filename).
ApiSaveCases ==
    /\ pc = "idle"
    /\ \E start \in Ids : \E end \in Ids :
         /\ start <= end
         /\ todo' = IdsToProcess(start, end)
         /\ span' = [start |-> start, end |-> end]
    /\ pc' = "crawl"
    /\ UNCHANGED <<fixture, driver, proxies, seen, proxy_index, processed_ids,
                   failed_ids, processed_file, failed_file, corpus, batch_start,
                   result, retry, get_calls, proxy_uses, last, at_start,
                   restarts, wfails>>

\* Lines 185-186, 156-157: process_single_case calls fetch_case for the next
\* identifier.  Without a record there is nothing to write and the loop goes
\* on; what fetch_case raises leaves save_cases.
CrawlFetch ==
    /\ pc = "crawl"
    /\ todo # <<>>
    /\ Call(Head(todo), "crawl")
    /\ result' = Returned(last')
    /\ IF last'.raised
       THEN /\ pc' = AfterSaveCasesRaised
            /\ todo' = <<>>
            /\ span' = NoSpan
            /\ batch_start' = NextBatchStart
       ELSE /\ pc' = IF result' # None THEN "crawl_write" ELSE "crawl"
            /\ todo' = IF result' # None THEN todo ELSE Tail(todo)
            /\ UNCHANGED <<batch_start, span>>
    /\ UNCHANGED <<fixture, driver, proxies, corpus, retry, at_start, restarts>>

\* Line 185: ids_to_process is exhausted and save_cases returns.
SaveCasesReturn ==
    /\ pc = "crawl"
    /\ todo = <<>>
    /\ pc' = AfterSaveCases
    /\ batch_start' = NextBatchStart
    /\ span' = NoSpan
    /\ UNCHANGED <<fixture, driver, proxies, seen, proxy_index, processed_ids,
                   failed_ids, processed_file, failed_file, corpus, todo, result,
                   retry, get_calls, proxy_uses, last, at_start, restarts, wfails>>

\* A caller of the class calls fetch_case(doc_id).
ApiFetchCase ==
    /\ pc = "idle"
    /\ \E doc_id \in Ids : Call(doc_id, "api")
    /\ UNCHANGED <<fixture, driver, proxies, span, corpus, pc, batch_start,
                   todo, result, retry, at_start, restarts>>

\* ------------------------------------------------------- retry_failed_cases
\* Lines 196-209: nothing to do for an empty failed set; otherwise the working
\* copy failed_ids = list(self.failed_ids), in the order the set lists its
\* members, and the first pass over a copy of it (if max_retries allows one).
RetryEnter(max_retries) ==
    IF failed_ids = {}
    THEN /\ pc' = AfterRetry
         /\ retry' = NoRetry
    ELSE /\ pc' = IF max_retries > 0 THEN "retry_fetch" ELSE "retry_finish"
         /\ \E order \in Orders(failed_ids) :
              retry' = [failed_ids |-> order,
                        pass |-> IF max_retries > 0 THEN 1 ELSE 0,
                        iter |-> IF max_retries > 0 THEN order ELSE <<>>,
                        max_retries |-> max_retries,
                        entry_failed |-> failed_ids,
                        entry_done |-> processed_ids,
                        entry_corpus |-> Lines(corpus)]

\* Lines 272-274: after the last batch __main__ calls retry_failed_cases.
MainRetry ==
    /\ pc = "main"
    /\ batch_start > TotalCases(fixture)
    /\ RetryEnter(DefaultMaxRetries)
    /\ UNCHANGED <<fixture, driver, proxies, span, seen, proxy_index, processed_ids,
                   failed_ids, processed_file, failed_file, corpus, batch_start,
                   todo, result, get_calls, proxy_uses, last, at_start,
                   restarts, wfails>>

\* A caller of the class calls retry_failed_cases(filename, max_retries).
ApiRetry ==
    /\ pc = "idle"
    /\ \E max_retries \in 0..DefaultMaxRetries : RetryEnter(max_retries)
    /\ UNCHANGED <<fixture, driver, proxies, span, seen, proxy_index, processed_ids,
                   failed_ids, processed_file, failed_file, corpus, batch_start,
                   todo, result, get_calls, proxy_uses, last, at_start,
                   restarts, wfails>>

\* Lines 210-211, 224-231: fetch_case for the next identifier of the pass.
\* Without a record the pass goes on with the identifier after it.
RetryFetch ==
    /\ pc = "retry_fetch"
    /\ retry.iter # <<>>
    /\ Call(Head(retry.iter), "retry")
    /\ result' = Returned(last')
    /\ IF last'.raised
       THEN /\ pc' = AfterRetryRaised
            /\ UNCHANGED retry
       ELSE /\ pc' = IF result' # None THEN "retry_write" ELSE "retry_fetch"
            /\ retry' = IF result' # None THEN retry
                        ELSE [retry EXCEPT !.iter = Tail(@)]
    /\ UNCHANGED <<fixture, driver, proxies, span, corpus, batch_start, todo,
                   at_start, restarts>>

\* Lines 158-165 and 212-222: the caller of fetch_case appends the record
\* block to the corpus; retry_failed_cases then drops the identifier from its
\* working list.  The append may raise, which ends the method.
AppendRecord ==
    /\ pc \in {"crawl_write", "retry_write"}
    /\ \E wok \in (IF Faulty /\ wfails < MaxWriteFailures
                   THEN BOOLEAN ELSE {TRUE}) :
         /\ corpus' = IF wok THEN AppendLine(corpus, result) ELSE corpus
         /\ wfails' = IF wok THEN wfails ELSE wfails + 1
         /\ IF pc = "crawl_write"
            THEN /\ todo' = IF wok THEN Tail(todo) ELSE <<>>
                 /\ pc' = IF wok THEN "crawl" ELSE AfterSaveCasesRaised
                 /\ batch_start' = IF wok THEN batch_start ELSE NextBatchStart
                 /\ span' = IF wok THEN span ELSE NoSpan
                 /\ UNCHANGED retry
            ELSE /\ retry' = IF wok
                             THEN [retry EXCEPT !.iter = Tail(@),
                                                !.failed_ids = Remove(@, result)]
                             ELSE retry
                 /\ pc' = IF wok THEN "retry_fetch" ELSE AfterRetryRaised
                 /\ UNCHANGED <<todo, batch_start, span>>
    /\ result' = None
    /\ UNCHANGED <<fixture, driver, proxies, seen, proxy_index, processed_ids,
                   failed_ids, processed_file, failed_file, get_calls,
                   proxy_uses, last, at_start, restarts>>

\* Lines 205-209, 233-235: a pass has ended.  The loop stops once the working
\* list is empty or max_retries passes were made; otherwise the next pass
\* starts over a copy of the working list.
RetryPassEnd ==
    /\ pc = "retry_fetch"
    /\ retry.iter = <<>>
    /\ IF retry.failed_ids = <<>> \/ retry.pass >= retry.max_retries
       THEN /\ pc' = "retry_finish"
            /\ UNCHANGED retry
       ELSE /\ pc' = "retry_fetch"
            /\ retry' = [retry EXCEPT !.pass = @ + 1, !.iter = retry.failed_ids]
    /\ UNCHANGED <<fixture, driver, proxies, span, seen, proxy_index, processed_ids,
                   failed_ids, processed_file, failed_file, corpus, batch_start,
                   todo, result, get_calls, proxy_uses, last, at_start,
                   restarts, wfails>>

\* Faulty variant: reconciliation empties the failed set.
ReconciledEmpty(working) == {}

\* Line 238: self.failed_ids = set(failed_ids).
Reconciled(working) == Range(working)

\* Lines 237-241: the failed set becomes the working list and failed_ids.txt
\* is written anew from it.  When the disk refuses, the file is left as it
\* was (open raised) or empty (truncated by open, the write raised).  The
\* locals end with the call.
RetryFinish ==
    /\ pc = "retry_finish"
    /\ failed_ids' = Reconciled(retry.failed_ids)
    /\ \E wok \in (IF Faulty /\ wfails < MaxWriteFailures
                   THEN BOOLEAN ELSE {TRUE}) :
         IF wok
         THEN /\ failed_file' = Rewritten(failed_ids')
              /\ pc' = AfterRetry
              /\ UNCHANGED wfails
         ELSE /\ failed_file' \in {failed_file, EmptyFile}
              /\ pc' = AfterRetryRaised
              /\ wfails' = wfails + 1
    /\ retry' = NoRetry
    /\ UNCHANGED <<fixture, driver, proxies, span, seen, proxy_index, processed_ids,
                   processed_file, corpus, batch_start, todo, result,
                   get_calls, proxy_uses, last, at_start, restarts>>

\* ------------------------------------------------------------ the process
\* The process is killed, at any point between two steps.  Only the three
\* files outlive it.
Crash ==
    /\ Faulty
    /\ pc \notin {"down", "exited"}
    /\ restarts < MaxRestarts
    /\ pc' = "down"
    /\ UNCHANGED <<fixture, driver, proxies, span, seen, proxy_index, processed_ids,
                   failed_ids, processed_file, failed_file, corpus, batch_start,
                   todo, result, retry, get_calls, proxy_uses, last, at_start,
                   restarts, wfails>>

\* Lines 24-53 again: a new process loads both ledgers from their files.
Restart ==
    /\ Faulty
    /\ pc \in {"down", "exited"}
    /\ restarts < MaxRestarts
    /\ restarts' = restarts + 1
    /\ processed_ids' = Load(processed_file)
    /\ failed_ids' = Load(failed_file)
    /\ at_start' = {i \in Ids : processed_file[i] > 0 \/ failed_file[i] > 0}
    /\ proxy_index' = 0
    /\ proxy_uses' = NoUses
    /\ get_calls' = NoGets
    /\ last' = [NoCall EXCEPT !.n = last.n]
    /\ pc' = IF driver = "main" THEN "main" ELSE "idle"
    /\ batch_start' = 1
    /\ todo' = <<>>
    /\ result' = None
    /\ retry' = NoRetry
    /\ span' = NoSpan
    /\ UNCHANGED <<fixture, driver, proxies, seen, processed_file, failed_file,
                   corpus, wfails>>

Next ==
    \/ MainBatch
    \/ ApiSaveCases
    \/ CrawlFetch
    \/ AppendRecord
    \/ SaveCasesReturn
    \/ ApiFetchCase
    \/ MainRetry
    \/ ApiRetry
    \/ RetryFetch
    \/ RetryPassEnd
    \/ RetryFinish
    \/ Crash
    \/ Restart

Spec == Init /\ [][Next]_vars

\* ------------------------------------------------------- the script's own run
\* Lines 243-274 from start to end: __main__ constructs the scraper, crawls the
\* range batch by batch and calls retry_failed_cases once; nothing kills the
\* process.  The single thread always takes its next step (sleeps end).
InitRun ==
    /\ Init
    /\ driver = "main"

NextRun ==
    \/ MainBatch
    \/ CrawlFetch
    \/ AppendRecord
    \/ SaveCasesReturn
    \/ MainRetry
    \/ RetryFetch
    \/ RetryPassEnd
    \/ RetryFinish

RunSpec == InitRun /\ [][NextRun]_vars /\ WF_vars(NextRun)

\* ================================================================== claims
\* A step in which fetch_case was called (and returned or raised).
FetchCaseStep == last'.n # last.n

\* The identifiers a ledger file names.
Named(file) == {i \in Ids : file[i] > 0}

\* The two sets and the two files.
ledger == <<processed_ids, failed_ids, processed_file, failed_file>>

\* C1: retry_failed_cases(max_retries=3), entered with failed = {7,8,9} and a
\* fetch that then succeeds for 7 and 8 and always fails for 9, returns with
\* failed = {9} in memory and in failed_ids.txt, with 7 and 8 added to done
\* and with exactly 2 record blocks more in the corpus.
C1_RetryReconciles ==
    [][(/\ pc = "retry_finish"
        /\ pc' # pc
        /\ fixture = "retry789"
        /\ retry.max_retries = 3
        /\ retry.entry_failed = {7, 8, 9})
       => (/\ failed_ids' = {9}
           /\ Named(failed_file') = {9}
           /\ processed_ids' = retry.entry_done \cup {7, 8}
           /\ Lines(corpus') = retry.entry_corpus + 2)]_vars

\* C2: a fetch_case call for an identifier that is in the done set or in the
\* failed set issues no get, obtains no proxy and leaves both sets, both
\* ledger files and the proxy cursor as they were.
C2_ResolvedIsSkipped ==
    [][(/\ FetchCaseStep
        /\ (last'.doc_id \in processed_ids \/ last'.doc_id \in failed_ids))
       => (/\ last'.gets = 0
           /\ last'.proxy = NoProxy
           /\ UNCHANGED <<ledger, proxy_index, proxy_uses, get_calls>>)]_vars

\* C2's case: fetch_case was called for an identifier of the done set.
C2_Witness ==
    /\ last.outcome = "skipped"
    /\ last.doc_id \in processed_ids
    /\ get_calls[last.doc_id] > 0

\* C3: from empty ledgers, once the range 1..10 has been crawled in batches
\* of 5 with content for all identifiers but 5, whose page has no judgment,
\* done = 1..10, failed is empty and the corpus holds exactly 9 record
\* blocks, none of them for 5.
C3_Range10 ==
    (fixture = "range10" /\ batch_start > 10)
    => (/\ processed_ids = 1..10
        /\ failed_ids = {}
        /\ Lines(corpus) = 9
        /\ corpus[5] = 0
        /\ \A i \in (1..10) \ {5} : corpus[i] = 1)

C3_Witness ==
    /\ fixture = "range10"
    /\ batch_start = 11
    /\ pc = "exited"
    /\ Lines(corpus) = 9

\* C4: a fetch_case call for an unresolved identifier whose first get is
\* answered 429 and whose second get succeeds has issued exactly 2 gets and
\* leaves the identifier in done and not in failed.
C4_RateLimitedThenSuccess ==
    (/\ last.outcome # "skipped"
     /\ last.r1.status = 429
     /\ last.r2.status = 200)
    => (/\ last.gets = 2
        /\ get_calls[last.doc_id] = 2
        /\ last.doc_id \in processed_ids
        /\ last.doc_id \notin failed_ids)

C4_Witness ==
    /\ last.r1.status = 429
    /\ last.r2 = PageWithJudgment
    /\ last.gets = 2
    /\ last.doc_id \in processed_ids

C6_DoneFailedDisjoint ==
    processed_ids \cap failed_ids = {}

C6_Witness ==
    /\ processed_ids # {}
    /\ failed_ids # {}
    /\ last.by = "retry"
    /\ pc = "idle"

\* C7: within a run of the process the done set never loses an identifier,
\* and an identifier leaves the failed set only when retry_failed_cases
\* reconciles, and only if the retry pass fetched it successfully, so that
\* it is in done.
C7_MembershipMonotone ==
    [][restarts' = restarts
       => (/\ processed_ids \subseteq processed_ids'
           /\ \A doc_id \in failed_ids \ failed_ids' :
                /\ pc = "retry_finish"
                /\ doc_id \in processed_ids'
                /\ doc_id \notin retry.entry_done
                /\ get_calls[doc_id] > 0)]_vars

\* C7's case: a retry pass has reconciled a non-empty failed set.
C7_Witness ==
    /\ pc = "exited"
    /\ failed_ids # {}
    /\ processed_ids # {}
    /\ last.by = "retry"

\* What the gets of a call came to: a transport failure (an exception, or a
\* status that is no success after the one retry a 429 gets).
C8_TransportFailure(call) ==
    LET final == IF call.r1.status = 429 THEN call.r2 ELSE call.r1
    IN  final.status # 200

\* C8: a fetch_case call for an identifier in neither set, whose fetch ends
\* in success, empty content or a transport failure, adds the identifier to
\* exactly one of the two sets and appends it once to exactly one of the two
\* files: failed on a transport failure, done otherwise.
C8_ExactlyOneMark ==
    [][(/\ FetchCaseStep
        /\ last'.doc_id \notin processed_ids \cup failed_ids
        /\ ~last'.raised)
       => IF C8_TransportFailure(last')
          THEN /\ failed_ids' = failed_ids \cup {last'.doc_id}
               /\ failed_file' = [failed_file EXCEPT ![last'.doc_id] = @ + 1]
               /\ UNCHANGED <<processed_ids, processed_file>>
          ELSE /\ processed_ids' = processed_ids \cup {last'.doc_id}
               /\ processed_file' = [processed_file EXCEPT ![last'.doc_id] = @ + 1]
               /\ UNCHANGED <<failed_ids, failed_file>>]_vars

\* C8's case: a call that ended in a transport failure after its one retry,
\* and left one line in failed_ids.txt.
C8_Witness ==
    /\ last.r1.status = 429
    /\ last.r2.status = 500
    /\ last.doc_id \in failed_ids
    /\ failed_file[last.doc_id] = 1
    /\ processed_file[last.doc_id] = 0

\* C9: processing an identifier again, after it was marked done or failed,
\* leaves the sets the two files hold as they were, and no identifier is
\* written more than once to processed_ids.txt or to failed_ids.txt.
C9_MarkingIdempotent ==
    /\ [](\A doc_id \in Ids : processed_file[doc_id] <= 1 /\ failed_file[doc_id] <= 1)
    /\ [][(/\ FetchCaseStep
           /\ (processed_file[last'.doc_id] > 0 \/ failed_file[last'.doc_id] > 0))
          => (/\ Named(processed_file') = Named(processed_file)
              /\ Named(failed_file') = Named(failed_file))]_vars

\* C9's case: an identifier marked failed was processed a second time.
C9_Witness ==
    /\ last.outcome = "skipped"
    /\ last.by = "retry"
    /\ failed_file[last.doc_id] = 1
    /\ get_calls[last.doc_id] > 0

\* The number of get_next_proxy calls that returned a proxy.
C10_Calls == LET RECURSIVE Sum(_)
                 Sum(k) == IF k = 0 THEN 0 ELSE proxy_uses[k] + Sum(k - 1)
             IN  Sum(Len(proxies))

\* C10: with K >= 1 proxies, the N calls made so far handed out the entries
\* in cyclic list order from the first, each floor(N/K) or ceil(N/K) times,
\* and every call for an unresolved identifier returns the entry at the
\* cursor and moves the cursor by one (mod K), whatever became of the
\* request; without proxies nothing is returned and the cursor stays.
C10_RoundRobin ==
    /\ [](IF Len(proxies) = 0
          THEN proxy_index = 0
          ELSE /\ proxy_index = C10_Calls % Len(proxies)
               /\ \A i \in 1..Len(proxies) :
                    proxy_uses[i] = (C10_Calls \div Len(proxies))
                        + (IF i <= C10_Calls % Len(proxies) THEN 1 ELSE 0))
    /\ [][(FetchCaseStep /\ last'.doc_id \notin processed_ids \cup failed_ids)
          => IF Len(proxies) = 0
             THEN last'.proxy = NoProxy /\ proxy_index' = proxy_index
             ELSE /\ last'.proxy.http[2] = proxies[proxy_index + 1].addr
                  /\ last'.proxy.https[2] = proxies[proxy_index + 1].addr
                  /\ proxy_index' = (proxy_index + 1) % Len(proxies)]_vars

\* C10's case: two proxies, handed out seven times, the last time for a
\* request that failed.
C10_Witness ==
    /\ Len(proxies) = 2
    /\ C10_Calls = 7
    /\ proxy_uses = <<4, 3>>
    /\ proxy_index = 1
    /\ last.outcome = "failed"

\* C11: one fetch_case call issues at most two get calls, and a second one
\* only after the first response was a 429; when the second get is answered
\* by another 429, by any other status outside 2xx, or raises a transport
\* error, the identifier is marked failed, in memory and (unless the disk
\* refuses the write) by one more line of failed_ids.txt, and the call returns
\* no record.
C11_SecondGetOnlyAfter429 ==
    [][FetchCaseStep
       => LET call == last'
              doc_id == call.doc_id
          IN  /\ call.gets <= 2
              /\ get_calls'[doc_id] = get_calls[doc_id] + call.gets
              /\ call.gets = 2 => call.r1.status = RateLimited
              /\ (call.gets = 2 /\ call.r2.status \notin 200..299)
                   => /\ doc_id \in failed_ids'
                      /\ doc_id \notin processed_ids'
                      /\ call.raised \/ failed_file'[doc_id] = failed_file[doc_id] + 1
                      /\ processed_file' = processed_file
                      /\ Returned(call) = None
                      /\ call.by # "api" => result' = None]_vars

\* C12: an identifier in neither set whose fetch succeeds with a page that
\* has no judgment content is put in the done set by fetch_case, never in the
\* failed set, no record block is appended to the corpus for it, and no later
\* range crawl or retry pass, of this process or of a later one, issues a get
\* for it again.
C12_EmptyPageIsDone ==
    /\ [][(/\ FetchCaseStep
           /\ last'.doc_id \notin processed_ids \cup failed_ids
           /\ FinalResponse(last'.r1, last'.r2) = PageWithoutJudgment
           /\ ~last'.raised)
          => (/\ seen'[last'.doc_id] = "empty"
              /\ Returned(last') = None
              /\ corpus' = corpus)]_vars
    /\ [](\A doc_id \in Ids :
            seen[doc_id] = "empty"
              => /\ doc_id \in processed_ids
                 /\ doc_id \notin failed_ids
                 /\ processed_file[doc_id] = 1
                 /\ failed_file[doc_id] = 0
                 /\ corpus[doc_id] = 0)
    /\ [][\A doc_id \in Ids :
            seen[doc_id] = "empty" => get_calls'[doc_id] <= get_calls[doc_id]]_vars

\* C12's case: the process was started again and ran to its end after an
\* identifier's page had come without a judgment: the identifier is done,
\* the corpus has no block for it and this process issued no get for it.
C12_Witness ==
    /\ pc = "exited"
    /\ restarts = 1
    /\ \E doc_id \in at_start :
         /\ seen[doc_id] = "empty"
         /\ doc_id \in processed_ids
         /\ corpus[doc_id] = 0
         /\ get_calls[doc_id] = 0
    /\ last.r1 = PageWithoutJudgment
    /\ last.outcome = "empty"

\* C13: an exception raised while __main__ processes a batch is caught at the
\* batch loop: control is back in the loop with the next batch due, the ledger
\* marks and record blocks written before the exception are kept, no batch is
\* left out afterwards (each one due is handed to save_cases with its own
\* range), and the retry pass is still reached.
C13_BatchExceptionCaught ==
    /\ [][(/\ driver = "main"
           /\ pc \in {"crawl", "crawl_write"}
           /\ wfails' > wfails)
          => (/\ pc' = "main"
              /\ batch_start' = batch_start + BatchSize(fixture)
              /\ processed_ids \subseteq processed_ids'
              /\ failed_ids \subseteq failed_ids'
              /\ \A doc_id \in Ids :
                   /\ processed_file'[doc_id] >= processed_file[doc_id]
                   /\ failed_file'[doc_id] >= failed_file[doc_id]
                   /\ corpus'[doc_id] = corpus[doc_id])]_vars
    /\ [][(/\ driver = "main"
           /\ wfails > 0)
          => (/\ batch_start' \in {batch_start, batch_start + BatchSize(fixture)}
              /\ (pc = "main" /\ batch_start <= TotalCases(fixture))
                   => (/\ pc' = "crawl"
                       /\ span' = [start |-> batch_start, end |-> BatchEnd]
                       /\ todo' = IdsToProcess(batch_start, BatchEnd)))]_vars
    /\ (driver = "main" /\ pc = "main" /\ wfails > 0)
          ~> (/\ batch_start > TotalCases(fixture)
              /\ pc \in {"retry_fetch", "retry_finish", "exited"})

\* C13's case: the corpus write for identifier 1 raised in the first batch;
\* its done mark was kept, the second batch wrote the block of identifier 2
\* and the retry pass ran.
C13_Witness ==
    /\ pc = "exited"
    /\ wfails = 1
    /\ restarts = 0
    /\ seen[1] = "record"
    /\ 1 \in processed_ids
    /\ corpus[1] = 0
    /\ corpus[2] = 1

\* C14: when retry_failed_cases returns after it was entered with a non-empty
\* failed set, failed_ids.txt names exactly the in-memory failed set, one line
\* each, which is the working copy that remained and a subset of the failed
\* set at entry; entered with an empty failed set (as __main__ does after a
\* crawl without failures) it changes neither set nor any file and issues no
\* get.
C14_RetryReturn ==
    /\ [][(/\ pc = "retry_finish"
           /\ pc' # "down"
           /\ wfails' = wfails)
          => (/\ retry.entry_failed # {}
              /\ failed_ids' = Range(retry.failed_ids)
              /\ failed_ids' \subseteq retry.entry_failed
              /\ Named(failed_file') = failed_ids'
              /\ \A doc_id \in Ids : failed_file'[doc_id] <= 1
              /\ UNCHANGED <<processed_ids, processed_file, corpus>>)]_vars
    /\ [][(/\ pc = "main"
           /\ batch_start > TotalCases(fixture)
           /\ failed_ids = {}
           /\ pc' # "down")
          => (/\ pc' = "exited"
              /\ UNCHANGED <<ledger, corpus, get_calls, last>>)]_vars

\* C14's case: the retry pass of a run in which both identifiers had failed
\* has returned, and failed_ids.txt was written anew.
C14_Witness ==
    /\ pc = "exited"
    /\ fixture = "free"
    /\ failed_ids = {1, 2}
    /\ Named(failed_file) = {1, 2}
    /\ last.by = "retry"
    /\ wfails = 0

\* C15: when save_cases(start, end) returns without raising, every identifier
\* of [start, end] is in exactly one of the done set and the failed set.
C15_RangeResolved ==
    [][(/\ pc = "crawl"
        /\ todo = <<>>
        /\ pc' \in {"main", "idle"})
       => (/\ span.start >= 1
           /\ span.start <= span.end
           /\ \A doc_id \in span.start..span.end :
                (doc_id \in processed_ids') # (doc_id \in failed_ids'))]_vars

\* C15's case: save_cases(1, 2) has returned to its caller, one identifier
\* done and the other failed.
C15_Witness ==
    /\ driver = "api"
    /\ pc = "idle"
    /\ last.by = "crawl"
    /\ last.doc_id = 2
    /\ get_calls[1] > 0
    /\ processed_ids = {1}
    /\ failed_ids = {2}

\* C16: over any sequence of range crawls, retry passes and restarts the
\* corpus holds at most one record block per identifier, blocks are only
\* appended and never taken away, and every identifier that has a block is in
\* the done set (and in processed_ids.txt).
C16_OneBlockPerId ==
    /\ [](\A doc_id \in Ids :
            /\ corpus[doc_id] <= 1
            /\ corpus[doc_id] = 1
                 => (doc_id \in processed_ids /\ processed_file[doc_id] >= 1))
    /\ [][\A doc_id \in Ids : corpus'[doc_id] >= corpus[doc_id]]_vars

\* C16's case: a process that was started again has run to its end; the
\* block of identifier 1 is from the process before it, that of identifier 2
\* from this one.
C16_Witness ==
    /\ pc = "exited"
    /\ restarts = 1
    /\ at_start = {1}
    /\ get_calls[1] = 0
    /\ get_calls[2] > 0
    /\ corpus[1] = 1
    /\ corpus[2] = 1

\* C17: resuming is safe for captured content: once the process was
\* interrupted (killed, or a corpus write raised), started again and has run
\* to completion, every identifier in the done set whose fetch returned
\* judgment content has a record block in the corpus.
C17_ResumeKeepsContent ==
    (pc = "exited" /\ restarts > 0)
      => \A doc_id \in processed_ids :
           seen[doc_id] = "record" => corpus[doc_id] >= 1

\* C18: whenever control is between two fetch_case calls and no write has
\* raised, processed_ids.txt names exactly the in-memory done set and
\* failed_ids.txt exactly the in-memory failed set, except inside a retry pass
\* before its reconciliation; processed_ids.txt only ever gains lines, and
\* failed_ids.txt changes otherwise than by one appended line only in the
\* reconciliation that ends a retry pass.
C18_FilesMirrorSets ==
    /\ []((/\ wfails = 0
           /\ pc \notin {"retry_fetch", "retry_write", "retry_finish"})
          => (/\ Named(processed_file) = processed_ids
              /\ Named(failed_file) = failed_ids))
    /\ [][\A doc_id \in Ids :
            processed_file'[doc_id] >= processed_file[doc_id]]_vars
    /\ [][(/\ failed_file' # failed_file
           /\ \A doc_id \in Ids : failed_file' # AppendLine(failed_file, doc_id))
          => pc = "retry_finish"]_vars

\* C18's case: a process that was started again is in its crawl; identifier
\* 1 was done before the restart and identifier 2 failed after it, and each
\* file names what its set holds.
C18_Witness ==
    /\ wfails = 0
    /\ restarts = 1
    /\ pc = "crawl"
    /\ at_start = {1}
    /\ processed_ids = {1}
    /\ Named(processed_file) = {1}
    /\ failed_ids = {2}
    /\ Named(failed_file) = {2}

\* C19: with a finite identifier range and a finite max_retries the whole run
\* of the script (all batches, then the retry pass) comes to its end whatever
\* the fetches answer and whichever writes raise, and the range crawl issues
\* at most two gets per identifier: it calls fetch_case only for identifiers
\* no get was issued for before, and one call issues at most two.
C19_RunTerminates ==
    /\ <>(pc \in {"exited", "down"})
    /\ [][(FetchCaseStep /\ last'.by = "crawl")
          => (/\ get_calls[last'.doc_id] = 0
              /\ get_calls'[last'.doc_id] <= 2)]_vars
    /\ [](\A doc_id \in Ids : get_calls[doc_id] <= 2)

\* C19's case: the script has ended after a crawl in which every identifier
\* was answered 429 twice, and after the three passes of the retry.
C19_Witness ==
    /\ pc = "exited"
    /\ fixture = "free"
    /\ \A doc_id \in Ids : get_calls[doc_id] = 2
    /\ failed_ids = Ids
    /\ last.by = "retry"
    /\ batch_start > TotalCases(fixture)

====
